---- MODULE Spec2Model ----
(***************************************************************************)
(* A model of the Gujarati news search scripts:                            *)
(*   appV3.py          semantic search over a pickled embedding cache      *)
(*   streamlit_app.py  fuzzy search over per-page JSON files               *)
(* Files on disk, the cache file and the outcome of the last script run    *)
(* are the state; every script run (main) is one action.  Exceptions are   *)
(* modelled as an "exc" field of the outcome of a call ("none" when the    *)
(* call returns normally).                                                 *)
(***************************************************************************)
EXTENDS Integers, Sequences, FiniteSets, TLC

\* ------------------------------------------------------------------ bounds
\* Most '//'-separated units the first corpus file holds; the second holds one.
MaxUnits == 2

\* ------------------------------------------------------------ the corpus
\* The *.txt files data/ may hold, in the order glob.glob lists them.
FileNames == <<"f1.txt", "f2.txt">>

\* The raw units between '//' separators: content.split('//') of a file is
\* a non-empty sequence of such units ("" is the one unit of an empty file).
RawUnits == {"", "a", " b "}

\* The units each file is drawn from (bounds the corpus).
RawUnitsOf(f) == IF f = "f1.txt" THEN RawUnits \ {" b "} ELSE RawUnits \ {"a"}

\* str.strip()
Strip(u) == CASE u = " b " -> "b" [] OTHER -> u

Absent == [kind |-> "absent", units |-> <<>>]

Unreadable == [kind |-> "unreadable", units |-> <<>>]

TextFile(units) == [kind |-> "text", units |-> units]

MaxUnitsOf(f) == IF f = "f1.txt" THEN MaxUnits ELSE 1

UnitSeqs(f) == UNION {[1..n -> RawUnitsOf(f)] : n \in 1..MaxUnitsOf(f)}

FileStates(f) == {Absent, Unreadable} \cup {TextFile(u) : u \in UnitSeqs(f)}

Names == {FileNames[i] : i \in 1..Len(FileNames)}

\* ------------------------------------------------------ external providers
\* SentenceTransformer.encode: a deterministic map from a text to a vector.
Encode(text) ==
    CASE text = "a" -> <<1, 0>>
      [] text = "b" -> <<0, 1>>
      [] text = "ab" -> <<1, 1>>
      [] text = "na" -> <<-1, 0>>
      [] OTHER -> <<0, 0>>

\* GoogleTranslator(source='en', target='gu').translate
Translate(word) ==
    CASE word = "A" -> "a"
      [] word = "B" -> "b"
      [] word = "AB" -> "ab"
      [] OTHER -> ""

\* sklearn cosine_similarity of two vectors, in thousandths; a zero vector is
\* normalised to itself, so its similarity to anything is 0.
Cosine(q, e) ==
    LET dot == q[1] * e[1] + q[2] * e[2]
        nn  == (q[1] * q[1] + q[2] * q[2]) * (e[1] * e[1] + e[2] * e[2])
    IN  CASE nn = 0 -> 0
          [] nn = 1 -> dot * 1000
          [] nn = 2 -> dot * 707
          [] OTHER  -> dot * 500

\* ----------------------------------------------------------------- pickle
\* pickle.dump of the dict {'embeddings': ..., 'articles_data': ...}: the
\* items of the dict in insertion order.
pickle_dump(embeddings, articles_data) ==
    << <<"embeddings", embeddings>>, <<"articles_data", articles_data>> >>

ItemOf(blob, key) == (CHOOSE i \in 1..Len(blob) : blob[i][1] = key)

\* pickle.load, then cached_data['embeddings'], cached_data['articles_data']
pickle_load(blob) ==
    [embeddings    |-> blob[ItemOf(blob, "embeddings")][2],
     articles_data |-> blob[ItemOf(blob, "articles_data")][2]]

NoCache == [exists |-> FALSE, blob |-> <<>>]

\* --------------------------------------------------------------- appV3.py
\* get_all_text_files: glob.glob("data/*.txt"); glob raises nothing.
get_all_text_files(fs) == SelectSeq(FileNames, LAMBDA f : fs[f].kind # "absent")

\* The inner loop of load_or_create_embeddings over one file's units: every
\* unit that is non-empty after strip() becomes a record.
ArticlesOf(f, units) ==
    LET recs == [i \in 1..Len(units) |-> [file |-> f, content |-> Strip(units[i])]]
    IN  SelectSeq(recs, LAMBDA r : r.content # "")

\* The loop over text_files: a file whose open/read raises is reported with
\* st.error and skipped (continue).
RECURSIVE ReadFiles(_, _)
ReadFiles(fs, text_files) ==
    IF text_files = <<>>
    THEN [articles |-> <<>>, errors |-> <<>>]
    ELSE LET f    == Head(text_files)
             rest == ReadFiles(fs, Tail(text_files))
         IN  IF fs[f].kind = "unreadable"
             THEN [articles |-> rest.articles,
                   errors   |-> <<"Error reading " \o f>> \o rest.errors]
             ELSE [articles |-> ArticlesOf(f, fs[f].units) \o rest.articles,
                   errors   |-> rest.errors]

\* The records the files yield.
Corpus(fs) == ReadFiles(fs, get_all_text_files(fs)).articles

\* create_embeddings: one model.encode call per record, then torch.stack,
\* which raises RuntimeError on an empty list.  failAt = k > 0 makes the k-th
\* encode call of the run raise.
create_embeddings(articles_data, failAt) ==
    LET n == Len(articles_data)
    IN  IF failAt \in 1..n
        THEN [exc |-> "EncodeError", embeddings |-> <<>>, calls |-> failAt]
        ELSE IF n = 0
        THEN [exc |-> "RuntimeError", embeddings |-> <<>>, calls |-> 0]
        ELSE [exc |-> "none",
              embeddings |-> [i \in 1..n |-> Encode(articles_data[i].content)],
              calls |-> n]

\* The cache-hit branch of load_or_create_embeddings: a file that exists is
\* unpickled and returned as it is; an empty (just truncated) file makes
\* pickle.load raise EOFError.
LoadCached(c) ==
    IF c.blob = <<>>
    THEN [exc |-> "EOFError", hit |-> TRUE, built |-> FALSE,
          embeddings |-> <<>>, articles_data |-> <<>>, cache |-> c,
          errors |-> <<>>, opened |-> {}, calls |-> 0]
    ELSE [exc |-> "none", hit |-> TRUE, built |-> FALSE,
          embeddings |-> pickle_load(c.blob).embeddings,
          articles_data |-> pickle_load(c.blob).articles_data, cache |-> c,
          errors |-> <<>>, opened |-> {}, calls |-> 0]

\* The build branch: read every file, embed every record, write the cache.
BuildCache(fs, c, failAt) ==
    LET text_files == get_all_text_files(fs)
        rd == ReadFiles(fs, text_files)
        ce == create_embeddings(rd.articles, failAt)
        opened == {text_files[i] : i \in 1..Len(text_files)}
    IN  IF ce.exc # "none"
        THEN [exc |-> ce.exc, hit |-> FALSE, built |-> FALSE,
              embeddings |-> <<>>, articles_data |-> <<>>, cache |-> c,
              errors |-> rd.errors, opened |-> opened, calls |-> ce.calls]
        ELSE [exc |-> "none", hit |-> FALSE, built |-> TRUE,
              embeddings |-> ce.embeddings, articles_data |-> rd.articles,
              cache |-> [exists |-> TRUE,
                         blob |-> pickle_dump(ce.embeddings, rd.articles)],
              errors |-> rd.errors, opened |-> opened, calls |-> ce.calls]

\* load_or_create_embeddings with a freshness check: a cache whose records
\* are not those of the corpus is rebuilt.
load_or_create_embeddings_fresh(fs, c, failAt) ==
    IF c.exists /\ c.blob # <<>> /\ pickle_load(c.blob).articles_data = Corpus(fs)
    THEN LoadCached(c)
    ELSE BuildCache(fs, c, failAt)

\* load_or_create_embeddings(model)
load_or_create_embeddings(fs, c, failAt) ==
    IF c.exists THEN LoadCached(c) ELSE BuildCache(fs, c, failAt)

\* np.where on a threshold clamped to [0, 1].
RelevantClamped(sims, threshold) ==
    LET t == IF threshold < 0 THEN 0 ELSE IF threshold > 1000 THEN 1000 ELSE threshold
    IN  SelectSeq([i \in 1..Len(sims) |-> i], LAMBDA i : sims[i] >= t)

\* np.where with > for >=.
RelevantStrict(sims, threshold) ==
    SelectSeq([i \in 1..Len(sims) |-> i], LAMBDA i : sims[i] > threshold)

\* np.where(similarities >= threshold)[0]: the kept indices, ascending.
Relevant(sims, threshold) ==
    SelectSeq([i \in 1..Len(sims) |-> i], LAMBDA i : sims[i] >= threshold)

\* np.argsort(keys) with the default kind ('quicksort', which NumPy documents
\* as not stable): every permutation that puts the keys in ascending order
\* is a possible outcome; equal keys may come out in any order.
argsort(keys) ==
    LET n == Len(keys)
    IN  {p \in [1..n -> 1..n] :
            /\ \A i, j \in 1..n : i # j => p[i] # p[j]
            /\ \A i, j \in 1..n : i < j => keys[p[i]] <= keys[p[j]]}

\* The sort keys without the negation: an ascending sort by similarity.
PosKeys(sims, rel) == [k \in 1..Len(rel) |-> sims[rel[k]]]

\* -similarities[relevant_indices]
NegKeys(sims, rel) == [k \in 1..Len(rel) |-> 0 - sims[rel[k]]]

\* semantic_search(query, model, embeddings, articles_data, threshold): the
\* set of its possible outcomes.  idx is history: the index in articles_data
\* a result was made from.  encodeFails: model.encode(query) raises.
\* cosine_similarity raises ValueError on a table of no rows; an index past
\* the end of articles_data raises IndexError.
semantic_search(query, embeddings, articles_data, threshold, encodeFails) ==
    IF encodeFails
    THEN {[exc |-> "EncodeError", results |-> <<>>]}
    ELSE IF Len(embeddings) = 0
    THEN {[exc |-> "ValueError", results |-> <<>>]}
    ELSE LET q    == Encode(query)
             sims == [i \in 1..Len(embeddings) |-> Cosine(q, embeddings[i])]
             rel  == Relevant(sims, threshold)
             keys == NegKeys(sims, rel)
         IN  {IF \E k \in 1..Len(rel) : rel[k] > Len(articles_data)
              THEN [exc |-> "IndexError", results |-> <<>>]
              ELSE [exc |-> "none",
                    results |-> [k \in 1..Len(rel) |->
                        [file       |-> articles_data[rel[p[k]]].file,
                         content    |-> articles_data[rel[p[k]]].content,
                         similarity |-> sims[rel[p[k]]],
                         idx        |-> rel[p[k]]]]]
              : p \in argsort(keys)}

\* translate_to_gujarati: any exception of the translator is reported with
\* st.error and None is returned.
translate_to_gujarati(word, translatorFails) ==
    IF translatorFails
    THEN [none |-> TRUE, text |-> "", errors |-> <<"Translation error">>]
    ELSE [none |-> FALSE, text |-> Translate(word), errors |-> <<>>]

\* What the user enters in one run of the page.
EnglishWords == {"A"}

GujaratiTexts == {"ab"}

\* st.slider(min 0.0, max 1.0, value 0.3, step 0.05), in thousandths.
SliderValues == {300, 1000}

SliderDefault == 300

\* The latest record whose model.encode call is made to fail (0: none).
MaxFailAt == 1

\* The inputs of one run.  A choice the run never asks for is left at its
\* default: the Search button is only drawn once a text is entered (and, for
\* an English text, translated), the translator is only called on an English
\* text, the threshold and the query's encode call only matter to a search.
RunInputs ==
    {inp \in [search_type : {"English to Gujarati", "Direct Gujarati Input"},
              text : {""} \cup EnglishWords \cup GujaratiTexts,
              translatorFails : BOOLEAN, button : BOOLEAN,
              threshold : SliderValues, failAt : 0..MaxFailAt,
              queryFails : BOOLEAN] :
        /\ inp.search_type = "English to Gujarati"
              => inp.text \in {""} \cup EnglishWords
        /\ inp.search_type = "Direct Gujarati Input"
              => inp.text \in {""} \cup GujaratiTexts /\ ~inp.translatorFails
        /\ inp.text = "" => ~inp.translatorFails /\ ~inp.button
        /\ inp.translatorFails => ~inp.button
        /\ ~inp.button => inp.threshold = SliderDefault /\ ~inp.queryFails}

\* The outcome of one run of main, before the search.  existed, stale, empty
\* and nodir are history, set by PageRun: whether the cache file existed when
\* the run began, whether its records then differed from those the corpus
\* yields, whether the corpus then yielded no record, and whether the
\* directory data/ was then missing.
RunOf(ld) ==
    [exc |-> ld.exc, hit |-> ld.hit, built |-> ld.built,
     embeddings |-> ld.embeddings, articles_data |-> ld.articles_data,
     opened |-> ld.opened, calls |-> ld.calls, errors |-> ld.errors,
     warned |-> FALSE, translated |-> FALSE, searched |-> FALSE,
     query |-> "", threshold |-> 0, results |-> <<>>,
     existed |-> FALSE, stale |-> FALSE, empty |-> FALSE, nodir |-> FALSE]

\* The search branch of main: semantic_search, then display_results.
SearchRuns(ld, r, query, inp) ==
    {[r EXCEPT !.exc = out.exc, !.searched = TRUE, !.query = query,
               !.threshold = inp.threshold, !.results = out.results]
     : out \in semantic_search(query, ld.embeddings, ld.articles_data,
                               inp.threshold, inp.queryFails)}

\* main(): the set of possible outcomes [run, cache] of one run of the page
\* on the files fs and the cache file c with the user's inputs inp.
main(fs, c, inp) ==
    LET ld == load_or_create_embeddings(fs, c, inp.failAt)
        r  == RunOf(ld)
        tr == translate_to_gujarati(inp.text, inp.translatorFails)
        rt == [r EXCEPT !.errors = r.errors \o tr.errors, !.translated = TRUE]
        runs ==
            IF ld.exc # "none" THEN {r}
            ELSE IF get_all_text_files(fs) = <<>>
            THEN {[r EXCEPT !.warned = TRUE]}
            ELSE IF inp.search_type = "English to Gujarati"
            THEN IF inp.text = "" THEN {r}
                 ELSE IF tr.none \/ tr.text = "" \/ ~inp.button THEN {rt}
                 ELSE SearchRuns(ld, rt, tr.text, inp)
            ELSE IF inp.text = "" \/ ~inp.button THEN {r}
                 ELSE SearchRuns(ld, r, inp.text, inp)
    IN  {[run |-> x, cache |-> ld.cache] : x \in runs}

\* -------------------------------------------------- streamlit_app.py
\* fuzz.partial_ratio on lower-cased strings: the best match of the shorter
\* string against a substring of the longer one, 0..100; 0 when either is
\* empty.
partial_ratio(s1, s2) ==
    CASE s1 = "" \/ s2 = "" -> 0
      [] s1 = "x"  /\ s2 \in {"x", "xz", "x   "} -> 100
      [] s1 = "xy" /\ s2 \in {"x", "y"} -> 100
      [] s1 = "xy" /\ s2 \in {"xz", "x   "} -> 50
      [] OTHER -> 0

\* The details_text search_news builds from the keys an item has: a
\* main_news item has summary, key_points and impact (both lists empty
\* here), an other_headline item has details (empty here), each followed by
\* one space.
DetailsText(news) ==
    CASE news.type = "main_news" -> news.summary \o "   "
      [] news.type = "other_headline" -> " "
      [] OTHER -> ""

Max(a, b) == IF a >= b THEN a ELSE b

\* The loop of search_news: the items whose title or details reach the
\* threshold, in list order, each with the larger of the two ratios.
Matches(news_list, search_term, similarity_threshold) ==
    LET title_ratio(n)   == partial_ratio(search_term, n.title)
        details_ratio(n) == partial_ratio(search_term, DetailsText(n))
        kept == SelectSeq(news_list,
                    LAMBDA n : \/ title_ratio(n) >= similarity_threshold
                               \/ details_ratio(n) >= similarity_threshold)
    IN  [i \in 1..Len(kept) |->
            [news |-> kept[i],
             similarity |-> Max(title_ratio(kept[i]), details_ratio(kept[i]))]]

\* list.sort without reverse=True: ascending, stable.
RECURSIVE SortAscending(_)
SortAscending(rs) ==
    IF rs = <<>> THEN <<>>
    ELSE LET n      == Len(rs)
             sorted == SortAscending(SubSeq(rs, 1, n - 1))
             k      == Cardinality({i \in 1..Len(sorted) :
                                      sorted[i].similarity <= rs[n].similarity})
         IN  SubSeq(sorted, 1, k) \o <<rs[n]>> \o SubSeq(sorted, k + 1, Len(sorted))

\* results.sort(key=lambda x: x['similarity'], reverse=True): descending,
\* equal similarities keep their order.
RECURSIVE SortBySimilarity(_)
SortBySimilarity(rs) ==
    IF rs = <<>> THEN <<>>
    ELSE LET n      == Len(rs)
             sorted == SortBySimilarity(SubSeq(rs, 1, n - 1))
             k      == Cardinality({i \in 1..Len(sorted) :
                                      sorted[i].similarity >= rs[n].similarity})
         IN  SubSeq(sorted, 1, k) \o <<rs[n]>> \o SubSeq(sorted, k + 1, Len(sorted))

\* search_news(news_list, search_term, similarity_threshold)
search_news(news_list, search_term, similarity_threshold) ==
    SortBySimilarity(Matches(news_list, search_term, similarity_threshold))

\* A page*.json file: it does not parse, or it holds a publication_details
\* object or not and the lists main_news, other_headlines and advertisements
\* (a key that is absent is treated like an empty list).  An entry of
\* main_news or other_headlines has a 'title' key or lacks it.
Titled(t) == [has_title |-> TRUE, title |-> t]

Untitled == [has_title |-> FALSE, title |-> ""]

\* The file names glob('page*.json') yields in the one date folder, in order.
PageNames == <<"page1.json", "page2.json">>

\* The name of the date folder, matching ^\d{1,2}_\d{1,2}$.
DateFolder == "5_1"

\* f"{day.zfill(2)}/{month.zfill(2)}/2024" of the folder name
DateOf(folder) == CASE folder = "5_1" -> "05/01/2024" [] OTHER -> "00/00/2024"

\* re.search(r'page(\d+)', name).group(1)
PageNum(name) ==
    CASE name = "page1.json" -> "1" [] name = "page2.json" -> "2" [] OTHER -> "0"

Item(type, title, summary, name) ==
    [type |-> type, title |-> title, summary |-> summary,
     date |-> DateOf(DateFolder), page |-> PageNum(name)]

\* The entries of a list before the first one without 'title'.
RECURSIVE TitledPrefix(_)
TitledPrefix(entries) ==
    IF entries = <<>> \/ ~Head(entries).has_title THEN <<>>
    ELSE <<Head(entries)>> \o TitledPrefix(Tail(entries))

\* The try block of load_json_files for one file: the items it appends to
\* all_news and whether it ends in the except branch.  json.load raises on
\* a file that does not parse; news['title'] and headline['title'] raise
\* KeyError on an entry without the key, which ends the file's processing
\* with the items appended so far kept.
ProcessPage(page, name) ==
    LET pub   == IF page.data.publication_details
                 THEN <<Item("publication_info", "Publication Details", "", name)>>
                 ELSE <<>>
        mainP == TitledPrefix(page.data.main_news)
        mainI == [i \in 1..Len(mainP) |-> Item("main_news", mainP[i].title, "", name)]
        othP  == TitledPrefix(page.data.other_headlines)
        othI  == [i \in 1..Len(othP) |->
                      Item("other_headline", othP[i].title, "", name)]
        ads   == [i \in 1..Len(page.data.advertisements) |->
                      Item("advertisement", "Advertisement: Unknown Company", "", name)]
    IN  IF ~page.parsable THEN [items |-> <<>>, failed |-> TRUE]
        ELSE IF Len(mainP) < Len(page.data.main_news)
        THEN [items |-> pub \o mainI, failed |-> TRUE]
        ELSE IF Len(othP) < Len(page.data.other_headlines)
        THEN [items |-> pub \o mainI \o othI, failed |-> TRUE]
        ELSE [items |-> pub \o mainI \o othI \o ads, failed |-> FALSE]

\* The loop of load_json_files over the files of the folder, from file i on:
\* a file that fails is reported with st.error and the loop goes on.
RECURSIVE LoadPages(_, _)
LoadPages(pages, i) ==
    IF i > Len(pages) THEN [all_news |-> <<>>, errors |-> <<>>]
    ELSE LET p    == ProcessPage(pages[i], PageNames[i])
             rest == LoadPages(pages, i + 1)
         IN  [all_news |-> p.items \o rest.all_news,
              errors |-> (IF p.failed
                          THEN <<"Error processing " \o PageNames[i]>>
                          ELSE <<>>) \o rest.errors]

\* load_json_files(base_path): os.listdir raises FileNotFoundError when
\* base_path does not exist.
load_json_files(t) ==
    IF ~t.exists
    THEN [exc |-> "FileNotFoundError", all_news |-> <<>>, errors |-> <<>>]
    ELSE [exc |-> "none", all_news |-> LoadPages(t.pages, 1).all_news,
          errors |-> LoadPages(t.pages, 1).errors]

\* main() of streamlit_app.py: everything under `if base_path:` runs in one
\* try block whose except branch reports the error with st.error.
news_main(t, inp) ==
    LET ld == load_json_files(t)
    IN  IF ~inp.base_path
        THEN [ran |-> TRUE, loaded |-> FALSE, all_news |-> <<>>,
              errors |-> <<>>, searched |-> FALSE, results |-> <<>>]
        ELSE IF ld.exc # "none"
        THEN [ran |-> TRUE, loaded |-> FALSE, all_news |-> <<>>,
              errors |-> <<"Error loading news data">>,
              searched |-> FALSE, results |-> <<>>]
        ELSE [ran |-> TRUE, loaded |-> TRUE, all_news |-> ld.all_news,
              errors |-> ld.errors, searched |-> inp.search_term # "",
              results |-> IF inp.search_term = "" THEN <<>>
                          ELSE search_news(ld.all_news, inp.search_term,
                                           inp.similarity_threshold)]

\* ------------------------------------------------------------------ state
VARIABLES
    data_dir,   \* whether the directory data/ exists
    files,      \* data/*.txt: file name -> Absent, Unreadable or its units
    cache,      \* data/embeddings_cache.pkl: [exists, blob]
    persisted,  \* history: the pair of the last pickle.dump
    run,        \* the outcome of the last run of appV3's main
    call,       \* a call of a search function: its arguments and outcome
    sess,       \* per browser session: where its run of main stands
    builds,     \* history: how often the cache file was written in full
    tree,       \* the news folders under base_path: [exists, pages]
    news        \* the outcome of the last run of streamlit_app's main

appVars == <<data_dir, files, cache, persisted, run>>

concVars == <<sess, builds>>

jsonVars == <<tree, news>>

vars == <<data_dir, files, cache, persisted, run, call, sess, builds, tree,
          news>>

NoRun == RunOf([exc |-> "none", hit |-> FALSE, built |-> FALSE,
                embeddings |-> <<>>, articles_data |-> <<>>,
                opened |-> {}, calls |-> 0, errors |-> <<>>])

NoPair == [embeddings |-> <<>>, articles_data |-> <<>>]

NoCall == [fn |-> "none"]

\* The sessions (browser tabs) of one streamlit process; each runs main on
\* a thread of its own.
NumSessions == 2

Sessions == 1..NumSessions

Idle == [pc |-> "idle", articles_data |-> <<>>, embeddings |-> <<>>,
         exc |-> "none"]

ConcIdle == sess = [s \in Sessions |-> Idle] /\ builds = 0

NoTree == [exists |-> FALSE, pages |-> <<>>]

NoNews == [ran |-> FALSE, loaded |-> FALSE, all_news |-> <<>>,
           errors |-> <<>>, searched |-> FALSE, results |-> <<>>]

JsonIdle == tree = NoTree /\ news = NoNews

AppInit ==
    /\ data_dir = TRUE
    /\ files = [f \in Names |-> Absent]
    /\ cache = NoCache
    /\ persisted = NoPair
    /\ run = NoRun

\* ------------------------------------------- appV3.py, one run at a time
Init == AppInit /\ call = NoCall /\ ConcIdle /\ JsonIdle

\* The corpus changes: a text file under data/ is written, replaced, made
\* unreadable or removed (by the user, outside the program).
ChangeCorpus ==
    \E f \in Names : \E st \in FileStates(f) :
        /\ data_dir
        /\ st # files[f]
        /\ files' = [files EXCEPT ![f] = st]
        /\ UNCHANGED <<data_dir, cache, persisted, run, call, concVars, jsonVars>>

\* The directory data/ is removed with all it holds: glob.glob("data/*.txt")
\* then returns [] and os.path.exists("data/embeddings_cache.pkl") False.
RemoveDataDir ==
    /\ data_dir
    /\ data_dir' = FALSE
    /\ files' = [f \in Names |-> Absent]
    /\ cache' = NoCache
    /\ UNCHANGED <<persisted, run, call, concVars, jsonVars>>

\* The directory data/ is created again, empty.
CreateDataDir ==
    /\ ~data_dir
    /\ data_dir' = TRUE
    /\ UNCHANGED <<files, cache, persisted, run, call, concVars, jsonVars>>

\* One run of the page (streamlit runs main() on every interaction).
PageRun ==
    \E inp \in RunInputs : \E out \in main(files, cache, inp) :
        /\ run' = [out.run EXCEPT
                      !.existed = cache.exists,
                      !.stale = cache.exists /\ persisted.articles_data # Corpus(files),
                      !.empty = Corpus(files) = <<>>,
                      !.nodir = ~data_dir]
        /\ cache' = out.cache
        /\ persisted' = IF out.run.built
                        THEN [embeddings |-> out.run.embeddings,
                              articles_data |-> out.run.articles_data]
                        ELSE persisted
        /\ UNCHANGED <<data_dir, files, call, concVars, jsonVars>>

Next == ChangeCorpus \/ RemoveDataDir \/ CreateDataDir \/ PageRun

Spec == Init /\ [][Next]_vars

\* --------------------------------------------- the search functions alone
\* Most rows of a table, and most items of a news list, a call is given.
MaxRows == 3

SearchTexts == {"a", "b", "na"}

QueryTexts == {"a", "ab", "na", "zz"}

\* Thresholds in thousandths: below -1, on and between the similarities that
\* occur, and above 1.
Thresholds == {-1100, -1000, -500, 0, 500, 707, 1000, 1100}

Tables ==
    UNION {[1..n -> [file : Names, content : SearchTexts]] : n \in 0..MaxRows}

SemanticCalls ==
    {[fn |-> "semantic_search", done |-> FALSE,
      args |-> [query |-> q, articles_data |-> t, threshold |-> th,
                embeddings |-> [i \in 1..Len(t) |-> Encode(t[i].content)]],
      exc |-> "none", results |-> <<>>]
     : q \in QueryTexts, t \in Tables, th \in Thresholds}

NewsItems ==
    [type : {"main_news"}, title : {"x", "xz", "y"}, summary : {"", "x"}]
        \cup [type : {"other_headline"}, title : {"y"}, summary : {""}]

NewsLists == UNION {[1..n -> NewsItems] : n \in 0..MaxRows}

\* st.slider("Similarity Threshold", 0, 100, 60)
NewsThresholds == {0, 60, 100}

NewsCalls ==
    {[fn |-> "search_news", done |-> FALSE,
      args |-> [news_list |-> l, search_term |-> w, similarity_threshold |-> th],
      exc |-> "none", results |-> <<>>]
     : l \in NewsLists, w \in {"x", "xy"}, th \in NewsThresholds}

SearchInit == AppInit /\ ConcIdle /\ JsonIdle /\ call \in SemanticCalls \cup NewsCalls

CallSemanticSearch ==
    /\ call.fn = "semantic_search" /\ ~call.done
    /\ \E out \in semantic_search(call.args.query, call.args.embeddings,
                                  call.args.articles_data, call.args.threshold,
                                  FALSE) :
          call' = [call EXCEPT !.done = TRUE, !.exc = out.exc,
                               !.results = out.results]
    /\ UNCHANGED <<appVars, concVars, jsonVars>>

CallSearchNews ==
    /\ call.fn = "search_news" /\ ~call.done
    /\ call' = [call EXCEPT !.done = TRUE,
                  !.results = search_news(call.args.news_list,
                                          call.args.search_term,
                                          call.args.similarity_threshold)]
    /\ UNCHANGED <<appVars, concVars, jsonVars>>

SearchNext == CallSemanticSearch \/ CallSearchNews

SpecSearch == SearchInit /\ [][SearchNext]_vars

\* --------------------------- appV3.py with a cache file it did not write
\* Most rows, and most records, of a cache file put in data/ from outside.
MaxForeign == 1

\* The entries such a file may hold: any table with any record list.
ForeignEntries ==
    [embeddings    : UNION {[1..n -> {Encode("a")}] : n \in 0..MaxForeign},
     articles_data : UNION {[1..n -> {[file |-> "f1.txt", content |-> "a"]}]
                               : n \in 0..MaxForeign}]

\* data/embeddings_cache.pkl is replaced by a file the program did not write
\* (left by another version of the script, copied from another corpus).
ReplaceCacheFile ==
    \E e \in ForeignEntries :
        /\ cache' = [exists |-> TRUE,
                     blob |-> pickle_dump(e.embeddings, e.articles_data)]
        /\ persisted' = e
        /\ UNCHANGED <<data_dir, files, run, call, concVars, jsonVars>>

ForeignNext == ChangeCorpus \/ PageRun \/ ReplaceCacheFile

SpecForeignCache == Init /\ [][ForeignNext]_vars

\* ------------------------- appV3.py, sessions of one process interleaved
\* Each session runs load_or_create_embeddings step by step; a step is what
\* the function does between two accesses to the file system or the model.
\* The rest of main works on the session's own copy of the pair and touches
\* nothing shared.

\* The script of session s starts (a page load or a widget interaction).
Begin(s) ==
    /\ sess[s].pc = "idle"
    /\ sess' = [sess EXCEPT ![s] = [Idle EXCEPT !.pc = "exists"]]
    /\ UNCHANGED <<appVars, call, builds, jsonVars>>

\* os.path.exists(cache_file)
CheckExists(s) ==
    /\ sess[s].pc = "exists"
    /\ sess' = [sess EXCEPT ![s].pc = IF cache.exists THEN "load" ELSE "read"]
    /\ UNCHANGED <<appVars, call, builds, jsonVars>>

\* open(cache_file, 'rb'), pickle.load and return
LoadStep(s) ==
    /\ sess[s].pc = "load"
    /\ sess' = [sess EXCEPT ![s] =
                  [pc |-> "idle", exc |-> LoadCached(cache).exc,
                   embeddings |-> LoadCached(cache).embeddings,
                   articles_data |-> LoadCached(cache).articles_data]]
    /\ UNCHANGED <<appVars, call, builds, jsonVars>>

\* get_all_text_files and the loop over the files
ReadStep(s) ==
    /\ sess[s].pc = "read"
    /\ sess' = [sess EXCEPT ![s].pc = "embed",
                            ![s].articles_data = Corpus(files)]
    /\ UNCHANGED <<appVars, call, builds, jsonVars>>

\* create_embeddings
EmbedStep(s) ==
    /\ sess[s].pc = "embed"
    /\ \E failAt \in 0..MaxFailAt :
          LET ce == create_embeddings(sess[s].articles_data, failAt)
          IN  sess' = [sess EXCEPT ![s] =
                  IF ce.exc # "none"
                  THEN [Idle EXCEPT !.exc = ce.exc]
                  ELSE [sess[s] EXCEPT !.pc = "open",
                                       !.embeddings = ce.embeddings]]
    /\ UNCHANGED <<appVars, call, builds, jsonVars>>

\* open(cache_file, 'wb'): the file exists from here on, and is empty.
OpenStep(s) ==
    /\ sess[s].pc = "open"
    /\ cache' = [exists |-> TRUE, blob |-> <<>>]
    /\ sess' = [sess EXCEPT ![s].pc = "dump"]
    /\ UNCHANGED <<data_dir, files, persisted, run, call, builds, jsonVars>>

\* pickle.dump, close and return
DumpStep(s) ==
    /\ sess[s].pc = "dump"
    /\ cache' = [exists |-> TRUE,
                 blob |-> pickle_dump(sess[s].embeddings, sess[s].articles_data)]
    /\ persisted' = [embeddings |-> sess[s].embeddings,
                     articles_data |-> sess[s].articles_data]
    /\ builds' = builds + 1
    /\ sess' = [sess EXCEPT ![s].pc = "idle"]
    /\ UNCHANGED <<data_dir, files, run, call, jsonVars>>

SessionStep(s) ==
    \/ Begin(s) \/ CheckExists(s) \/ LoadStep(s) \/ ReadStep(s)
    \/ EmbedStep(s) \/ OpenStep(s) \/ DumpStep(s)

ConcNext == ChangeCorpus \/ \E s \in Sessions : SessionStep(s)

SpecConc == Init /\ [][ConcNext]_vars

\* ----------------------------------------------------- streamlit_app.py
\* Most entries of a page's main_news list.
MaxEntries == 2

PageData ==
    [publication_details : BOOLEAN,
     main_news : UNION {[1..n -> {Titled("x"), Untitled}] : n \in 0..MaxEntries},
     other_headlines : UNION {[1..n -> {Titled("y"), Untitled}] : n \in 0..1},
     advertisements : UNION {[1..n -> {"ad"}] : n \in 0..1}]

NoData == [publication_details |-> FALSE, main_news |-> <<>>,
           other_headlines |-> <<>>, advertisements |-> <<>>]

Pages == {[parsable |-> FALSE, data |-> NoData]}
             \cup {[parsable |-> TRUE, data |-> d] : d \in PageData}

Trees == {NoTree}
             \cup {[exists |-> TRUE, pages |-> ps]
                   : ps \in UNION {[1..n -> Pages] : n \in 0..Len(PageNames)}}

NewsInputs ==
    [base_path : BOOLEAN, search_term : {"", "x"}, similarity_threshold : {60}]

JsonInit == AppInit /\ call = NoCall /\ ConcIdle /\ tree \in Trees /\ news = NoNews

\* One run of the page.
NewsRun ==
    /\ \E inp \in NewsInputs : news' = news_main(tree, inp)
    /\ UNCHANGED <<appVars, call, concVars, tree>>

JsonNext == NewsRun

SpecJson == JsonInit /\ [][JsonNext]_vars

C2_RebuildOnChange == run.stale => run.built /\ ~run.hit

\* C3: with a corpus that yields no record and no cache file,
\* load_or_create_embeddings returns an empty record sequence and an empty
\* table without raising.
C3_EmptyCorpusLoads ==
    (~run.existed /\ run.empty) =>
        /\ run.exc = "none"
        /\ run.embeddings = <<>>
        /\ run.articles_data = <<>>

\* C9: a failure of the translator or of an encode call is reported and ends
\* the operation with no result; it never ends the run with an uncaught
\* exception, and no search runs on a failed translation.
C9_ProviderFailureContained ==
    /\ run.exc # "EncodeError"
    /\ (\E i \in 1..Len(run.errors) : run.errors[i] = "Translation error")
          => ~run.searched /\ run.results = <<>>

\* The similarity of row i of a finished semantic_search call to its query.
SimOf(i) == Cosine(Encode(call.args.query), call.args.embeddings[i])

SemanticDone == call.fn = "semantic_search" /\ call.done /\ call.exc = "none"

\* C4: in the result of semantic_search, two records of equal similarity
\* appear in ascending order of their index in articles_data.
C4_TiesInIndexOrder ==
    SemanticDone =>
        \A k, l \in 1..Len(call.results) :
            (k < l /\ call.results[k].similarity = call.results[l].similarity)
                => call.results[k].idx < call.results[l].idx

\* C5: the result of semantic_search has exactly one entry for every index i
\* with sim(i) >= threshold and none for any other index, and the entry for
\* i carries the file and content of articles_data[i] and the score sim(i).
C5_ResultIsTheKeptRows ==
    SemanticDone =>
        /\ \A i \in 1..Len(call.args.embeddings) :
              Cardinality({k \in 1..Len(call.results) : call.results[k].idx = i})
                  = IF SimOf(i) >= call.args.threshold THEN 1 ELSE 0
        /\ \A k \in 1..Len(call.results) :
              /\ call.results[k].idx \in 1..Len(call.args.embeddings)
              /\ call.results[k].file
                    = call.args.articles_data[call.results[k].idx].file
              /\ call.results[k].content
                    = call.args.articles_data[call.results[k].idx].content
              /\ call.results[k].similarity = SimOf(call.results[k].idx)

\* C5's case: a search that kept a row whose similarity equals the threshold
\* and dropped another row.
C5_Witness ==
    /\ SemanticDone
    /\ Len(call.results) = 2
    /\ Len(call.args.embeddings) = 3
    /\ \E k \in 1..2 : call.results[k].similarity = call.args.threshold

\* C6: the sequence semantic_search returns, and the one search_news
\* returns, is in non-increasing order of similarity.
C6_ResultsDescending ==
    (call.fn # "none" /\ call.done /\ call.exc = "none") =>
        \A k \in 1..Len(call.results) - 1 :
            call.results[k].similarity >= call.results[k + 1].similarity

\* C6's case: a semantic search whose table held the less similar row first.
C6_Witness ==
    /\ SemanticDone
    /\ Len(call.results) = 2
    /\ call.results[1].similarity > call.results[2].similarity
    /\ call.results[1].idx > call.results[2].idx

\* C6's case for search_news: a list whose less similar item came first.
C6_WitnessNews ==
    /\ call.fn = "search_news" /\ call.done
    /\ Len(call.results) = 2
    /\ call.results[1].similarity > call.results[2].similarity
    /\ call.results[1].news = call.args.news_list[2]
    /\ call.results[2].news = call.args.news_list[1]

\* C8: every pair load_or_create_embeddings returns, built or loaded, has as
\* many embeddings as records; a persisted entry whose two lengths differ is
\* not returned but rebuilt.
C8_ReturnedPairAligned ==
    /\ run.exc = "none" => Len(run.embeddings) = Len(run.articles_data)
    /\ (run.existed /\ Len(persisted.embeddings) # Len(persisted.articles_data))
          => ~run.hit

\* C7: across all runs and interleavings of the sessions of one process the
\* cache is built at most once, and after the first build it is only read:
\* no run finds it partially written.
C7_BuiltAtMostOnce ==
    /\ builds <= 1
    /\ \A s \in Sessions : sess[s].exc # "EOFError"

\* The entries of a parsable page: its publication_details, if any, and the
\* members of its three lists.
EntryCount(d) ==
    (IF d.publication_details THEN 1 ELSE 0) + Len(d.main_news)
        + Len(d.other_headlines) + Len(d.advertisements)

UntitledCount(d) ==
    Cardinality({i \in 1..Len(d.main_news) : ~d.main_news[i].has_title})
        + Cardinality({i \in 1..Len(d.other_headlines) :
                          ~d.other_headlines[i].has_title})

ItemsOfPage(i) ==
    {k \in 1..Len(news.all_news) : news.all_news[k].page = PageNum(PageNames[i])}

\* C10: load_json_files loads an entry without 'title' with an empty title,
\* and still loads every other entry of the same file, before and after it.
C10_MissingTitleDefaulted ==
    news.loaded =>
        \A i \in 1..Len(tree.pages) :
            tree.pages[i].parsable =>
                /\ Cardinality(ItemsOfPage(i)) = EntryCount(tree.pages[i].data)
                /\ Cardinality({k \in ItemsOfPage(i) : news.all_news[k].title = ""})
                      = UntitledCount(tree.pages[i].data)

\* The indices of the rows a finished semantic_search call returned.
ResultIdx == {call.results[k].idx : k \in 1..Len(call.results)}

\* C13 as stated: on a table whose similarities lie in [-1, 1], a threshold
\* above 1 gives an empty result and a threshold below 0 gives a result
\* holding every record.
C13_BelowZeroKeepsAll ==
    SemanticDone =>
        /\ call.args.threshold > 1000 => call.results = <<>>
        /\ call.args.threshold < 0
              => ResultIdx = 1..Len(call.args.embeddings)

\* C13, amended: the threshold is applied as given; a threshold above 1
\* gives an empty result, a threshold of -1 or less gives a result holding
\* every record, and a threshold between them keeps exactly the rows whose
\* similarity reaches it.
C13_ThresholdAsGiven ==
    SemanticDone =>
        /\ \A i \in 1..Len(call.args.embeddings) :
              SimOf(i) >= -1000 /\ SimOf(i) <= 1000
        /\ call.args.threshold > 1000 => call.results = <<>>
        /\ call.args.threshold <= -1000
              => ResultIdx = 1..Len(call.args.embeddings)
        /\ ResultIdx = {i \in 1..Len(call.args.embeddings) :
                           SimOf(i) >= call.args.threshold}

\* C13's case: a threshold of -1 on a table with a row of similarity -1 and
\* another row, both returned.
C13_Witness ==
    /\ SemanticDone
    /\ call.args.threshold = -1000
    /\ Len(call.args.embeddings) >= 2
    /\ \E i \in 1..Len(call.args.embeddings) : SimOf(i) = -1000
    /\ ResultIdx = 1..Len(call.args.embeddings)

\* C13's other case: a threshold above 1 on a table with a row of
\* similarity 1, nothing returned.
C13_WitnessAboveOne ==
    /\ SemanticDone
    /\ call.args.threshold > 1000
    /\ \E i \in 1..Len(call.args.embeddings) : SimOf(i) = 1000
    /\ call.results = <<>>

\* The files whose open/read raises.
UnreadableFiles == {f \in Names : files[f].kind = "unreadable"}

\* The files as they would be were the failing files absent.
WithoutUnreadable ==
    [f \in Names |-> IF f \in UnreadableFiles THEN Absent ELSE files[f]]

\* C11, for load_or_create_embeddings: in a run that finds no cache file and
\* in which no encode call fails, when reading a file fails the load does not
\* abort, the failing file is reported, and the records returned are those of
\* the other files, in the order they would have were the failing file absent.
C11_FailingFileSkipped ==
    [][(/\ files' = files
        /\ ~cache.exists
        /\ UnreadableFiles # {}
        /\ (run'.built \/ run'.exc # "EncodeError"))
       => /\ run'.built
          /\ \A f \in UnreadableFiles :
                \E i \in 1..Len(run'.errors) : run'.errors[i] = "Error reading " \o f
          /\ run'.articles_data = Corpus(WithoutUnreadable)]_vars

\* C12, for load_or_create_embeddings: a run of main that finds the directory
\* data/ missing ends without an uncaught exception, with an empty record
\* sequence and a reported error.
C12_MissingDirReported ==
    run.nodir =>
        /\ run.exc = "none"
        /\ run.articles_data = <<>>
        /\ run.errors # <<>>

\* C12, for load_json_files called by main: a run that finds base_path
\* missing reports an error and yields no record.
C12_MissingBasePathReported ==
    (news.ran /\ ~tree.exists) =>
        /\ news.all_news = <<>>
        /\ ~news.loaded
        /\ news.errors \in {<<>>, <<"Error loading news data">>}

====
